---------------------------- MODULE Spec2Model ----------------------------
(***************************************************************************)
(* The competition synchronization engine of vbet                          *)
(* (src/vbet/game/competition.py, class LeagueCompetition) as a state      *)
(* machine.  Every coroutine of the class runs on one asyncio loop, so a   *)
(* handler is atomic between two suspension points: the sleeps of the      *)
(* retry paths, await_event_time, and the task created for                 *)
(* get_future_weeks.  Each such suspension is an entry of `waits`, and     *)
(* the code after it is the action that wakes the entry.                   *)
(*                                                                         *)
(* A handler is written as a function from the engine's state (a record    *)
(* with one field per attribute of the object) to the state it leaves;     *)
(* the record also carries `log`, the calls the handler made in order      *)
(* (requests sent, collaborators called), `raised`, the exception that     *)
(* left the handler, and `ovf`, set when the model's bounds are exceeded.  *)
(***************************************************************************)
EXTENDS Integers, Sequences, FiniteSets, Bags, TLC

(* ------------------------------ bounds -------------------------------- *)
\* rounds per league (38 or 34 in the program, competition.py:41)
max_week == 2
\* league ids the feed reports: 1..NumLeagues
NumLeagues == 2
\* request ids the transport has in use at one time: 1..MaxXs
MaxXs == 3
\* suspended coroutines (sleeps, event-time waits, prefetch tasks) at one time
MaxWaits == 2
\* the observer's count of backfill iterations saturates here
MaxIters == 7
\* malformed responses to the one results or history request the feed
\* fails in a run (to the request and to its re-issues)
MaxFaults == 5
\* malformed fixtures responses in one run
MaxEventFaults == 1
\* steps a run is followed for once its connection is lost (the loss, the
\* reconnection and what the engine does next)
MaxRestored == 5
\* connection losses in one run
MaxLosses == 1
\* the observer's count of polls since the last fixtures saturates here
MaxPolls == 2
\* strategies that can be installed: 1..MaxPlayers
MaxPlayers == 3

(* ------------------------- program constants -------------------------- *)
None == 0
SLEEPING == 0
EVENTS == 1
TICKETS == 2
RESULTS == 3
max_history_count == 5
MaxRetry == 3
\* pagination cursors: one block, a batch of ten backwards, ten forwards
HistoryBack == -10
HistoryForward == 10

Weeks == 1..max_week
Leagues == 1..NumLeagues
Xs == 1..MaxXs

\* The feed numbers its blocks consecutively: league l, round w is block
\* (l-1)*max_week + w; a block id is never reused for another round.
BlockOf(l, w) == (l - 1) * max_week + w
Blocks == 1..(NumLeagues * max_week)
LeagueOfBlock(b) == ((b - 1) \div max_week) + 1
WeekOfBlock(b) == ((b - 1) % max_week) + 1

EmptyDict == [x \in {} |-> 0]
\* dict.pop that leaves the entry in place.
DictKeep(d, k) == d
DictPop(d, k) == [x \in DOMAIN d \ {k} |-> d[x]]
DictPut(d, k, v) == [x \in DOMAIN d \cup {k} |-> IF x = k THEN v ELSE d[x]]
Range(f) == {f[x] : x \in DOMAIN f}
SetMax(S) == CHOOSE x \in S : \A y \in S : y <= x
SetMin(S) == CHOOSE x \in S : \A y \in S : x <= y

RECURSIVE SetToSeqAsc(_)
SetToSeqAsc(S) == IF S = {} THEN <<>>
                  ELSE <<SetMin(S)>> \o SetToSeqAsc(S \ {SetMin(S)})
RECURSIVE SetToSeqDesc(_)
SetToSeqDesc(S) == IF S = {} THEN <<>>
                   ELSE <<SetMax(S)>> \o SetToSeqDesc(S \ {SetMax(S)})
SeqToSet(q) == {q[i] : i \in 1..Len(q)}

VARIABLES
    online, lost, restoring, phase, e_block_id, league, week, table,
    caching, caching_future, cached, caching_multiple, fetching_future,
    auto_skip, required_weeks, history_count,
    event_xs, result_xs, history_xs, active_tickets, blocks, league_games,
    waits,       \* suspended coroutines, a bag of continuations
    last,        \* observer: the handler that ran last, its input, its log and the phase it started in
    abandoned,   \* observer: the current block, once its results request exhausted its retries
    iters,       \* observer: history requests issued by the running backfill
    faults,      \* observer: malformed results and history responses delivered so far
    efaults,     \* observer: malformed fixtures responses delivered so far
    live,        \* the feed: the block of the last fixtures it served
    restored,    \* observer: steps taken since the connection was lost
    dead,        \* the transport: requests that went out on a socket now lost
    losses,      \* observer: connection losses so far
    polled,      \* observer: the block the strategies were polled for, until its results are processed
    polls,       \* observer: polls of the strategies since the last well-formed fixtures response
    players,     \* the strategies installed
    closing,     \* the strategies whose `closing` is set
    exit_tasks,  \* the task created for each strategy's exit(), and how far it got
    exit_pc,     \* where exit() of the competition is
    socket_open  \* the competition's socket, until its exit() is called

ModelVars == <<online, lost, restoring, phase, e_block_id, league, week, table,
          caching, caching_future, cached, caching_multiple, fetching_future,
          auto_skip, required_weeks, history_count,
          event_xs, result_xs, history_xs, active_tickets, blocks, league_games,
          waits, last, abandoned, iters, faults, efaults, live, dead, losses, restored,
          polled, polls>>
ShutdownVars == <<players, closing, exit_tasks, exit_pc, socket_open>>
vars == <<ModelVars, ShutdownVars>>

(* ------------------------------ the table ----------------------------- *)
\* LeagueTable is not part of the sources at hand; it is modelled from
\* section 4.1 of the specification: the league it tracks, the live round,
\* the rounds with a result record and the blocks those records came from.
NewTable == [league |-> None, week |-> None, results |-> {}, blocks |-> {}]

\* Table.on_event: the table follows the league of the fixtures; a new
\* league starts from an empty table.
table_on_event(t, l, w) ==
    IF l # t.league
    THEN [league |-> l, week |-> w, results |-> {}, blocks |-> {}]
    ELSE [t EXCEPT !.week = w]

\* Table.feed_result: ignored for a league the table does not track, and
\* for a round that is not a round (an unmapped block).
table_feed_result(t, b, l, w, has_result) ==
    IF l # t.league \/ w \notin Weeks \/ b \notin Blocks \/ ~has_result THEN t
    ELSE [t EXCEPT !.results = @ \cup {w}, !.blocks = @ \cup {b}]

\* Table.get_missing_weeks: the rounds the live round has passed whose
\* result record is not there, ascending.
table_get_missing_weeks(t) ==
    SetToSeqAsc({w \in Weeks : w < t.week /\ w \notin t.results})

\* Table.check_weeks: the rounds of `required` still without a result
\* record, most recent first.
table_check_weeks(t, required) ==
    SetToSeqDesc({w \in required : w \notin t.results})

\* Table.get_min_block: the smallest block mapped, None when there is none.
table_get_min_block(t) == IF t.blocks = {} THEN None ELSE SetMin(t.blocks)

(* --------------------------- engine state ----------------------------- *)
Cur == [online |-> online, lost |-> lost, restoring |-> restoring,
        phase |-> phase, e_block_id |-> e_block_id, league |-> league,
        week |-> week, table |-> table, caching |-> caching,
        caching_future |-> caching_future, cached |-> cached,
        caching_multiple |-> caching_multiple,
        fetching_future |-> fetching_future, auto_skip |-> auto_skip,
        required_weeks |-> required_weeks, history_count |-> history_count,
        event_xs |-> event_xs, result_xs |-> result_xs,
        history_xs |-> history_xs, active_tickets |-> active_tickets,
        blocks |-> blocks, league_games |-> league_games, waits |-> waits,
        abandoned |-> abandoned, iters |-> iters, faults |-> faults, efaults |-> efaults, live |-> live,
        losses |-> losses,
        log |-> <<>>, raised |-> "", ovf |-> FALSE]

\* One entry of a handler's log.
Ev(name, a, b, c) == [ev |-> name, a |-> a, b |-> b, c |-> c]
Logged(s, e) == [s EXCEPT !.log = Append(@, e)]

(* ------------------------------ requests ------------------------------ *)
\* User.send: the transport hands out an id that no outstanding request
\* of any kind holds (one flat id space).
InUse(s) == DOMAIN s.event_xs \cup DOMAIN s.result_xs \cup DOMAIN s.history_xs
send(s) == IF Xs \ InUse(s) = {} THEN None ELSE SetMin(Xs \ InUse(s))

next_event(s, n) ==
    LET xs == send(s) IN
    IF xs = None THEN [s EXCEPT !.ovf = TRUE]
    ELSE Logged([s EXCEPT !.event_xs = DictPut(@, xs, [n |-> n])],
                Ev("send_events", xs, None, n))

next_result(s, b, n, retry_count) ==
    LET xs == send(s) IN
    IF xs = None THEN [s EXCEPT !.ovf = TRUE]
    ELSE Logged([s EXCEPT !.result_xs =
                    DictPut(@, xs, [eBlockId |-> b, n |-> n,
                                    retry_count |-> retry_count])],
                Ev("send_results", xs, b, retry_count))

next_history(s, b, n, retry_count) ==
    LET xs == send(s) IN
    IF xs = None THEN [s EXCEPT !.ovf = TRUE]
    ELSE Logged([s EXCEPT !.history_xs =
                    DictPut(@, xs, [eBlockId |-> b, n |-> n,
                                    retry_count |-> retry_count])],
                Ev("send_history", xs, b, retry_count))

\* A coroutine suspends: the continuation w joins the bag.
Suspend(s, w) ==
    IF BagCardinality(s.waits) >= MaxWaits THEN [s EXCEPT !.ovf = TRUE]
    ELSE [s EXCEPT !.waits = @ (+) SetToBag({w})]

Wait(kind, b, n, rc, weeks) ==
    [k |-> kind, block |-> b, n |-> n, rc |-> rc, weeks |-> weeks]

\* next_block_result: await_event_time sleeps when the event time lies
\* ahead (env.wait) and the request then goes out for the block that is
\* current when the sleep ends.
next_block_result(s, env) ==
    LET s1 == Logged(s, Ev("await_event_time", s.e_block_id, None, None)) IN
    IF env.wait THEN Suspend(s1, Wait("block_result", None, 1, 0, <<>>))
    ELSE next_result(s1, s1.e_block_id, 1, 0)

next_block_event(s) == next_event(s, 1)

next_block_future(s, b) == next_history(s, b, HistoryForward, 0)

(* ------------------------------ lookups ------------------------------- *)
get_missing_blocks(s) == Weeks \ Range(s.blocks)

\* The first block mapped to the round, None when there is none.
get_block_by_week(s, w) ==
    IF \E b \in DOMAIN s.blocks : s.blocks[b] = w
    THEN SetMin({b \in DOMAIN s.blocks : s.blocks[b] = w})
    ELSE None

get_week_by_block(s, b) == IF b \in DOMAIN s.blocks THEN s.blocks[b] ELSE None

\* process_missing: the loop of the cached branch walks blocks.items(),
\* whose keys are block ids and whose values are rounds, and returns the
\* value of the key that equals the largest missing round.
process_missing(s, missing) ==
    IF s.cached
    THEN LET w == SetMax(SeqToSet(missing)) IN
         IF w \in DOMAIN s.blocks THEN s.blocks[w] ELSE None
    ELSE LET block == table_get_min_block(s.table) IN
         IF block = None THEN s.e_block_id ELSE block

\* get_required_weeks: the rounds no strategy uses; env.used are the rounds
\* the strategies report.
get_required_weeks(s, env) == Weeks \ env.used

reset_tickets(s) == [s EXCEPT !.active_tickets = <<>>]

\* process_tickets: the tickets of the pool are registered with the ticket
\* manager and their keys kept.
process_tickets(s, tickets) ==
    [Logged(reset_tickets(s), Ev("process_tickets", Len(tickets), None, None))
        EXCEPT !.active_tickets = tickets]

(* ------------------------- dispatch evaluation ------------------------ *)
\* dispatch_events taking the polling branch whatever the table says of
\* the required rounds.
dispatch_ignores_required(s0, env) ==
    LET s == Logged(s0, Ev("dispatch_events", None, None, None)) IN
    IF get_missing_blocks(s) # {}
    THEN next_block_future([s EXCEPT !.caching_future = TRUE, !.cached = FALSE],
                           s.e_block_id)
    ELSE LET s1 == Logged([s EXCEPT !.history_count = 0, !.iters = 0],
                          Ev("on_event", s.week, s.e_block_id, Len(env.tickets))) IN
         IF env.tickets # <<>>
         THEN process_tickets([s1 EXCEPT !.phase = TICKETS], env.tickets)
         ELSE next_block_result([s1 EXCEPT !.phase = RESULTS], env)

\* dispatch_events.  env.tickets is the pool the active strategies return
\* from on_event, env.wait whether the event time lies ahead.
\* The on_event entry of the log keeps the round, the block and the size of
\* the pool.
dispatch_events(s0, env) ==
    LET s == Logged(s0, Ev("dispatch_events", None, None, None)) IN
    IF get_missing_blocks(s) # {}
    THEN next_block_future([s EXCEPT !.caching_future = TRUE, !.cached = FALSE],
                           s.e_block_id)
    ELSE LET not_ready == table_check_weeks(s.table, s.required_weeks) IN
         IF not_ready # <<>>
         THEN Suspend(Logged(s, Ev("create_task", Len(not_ready), None, None)),
                      Wait("future_task", None, 1, 0, not_ready))
         ELSE LET s1 == Logged([s EXCEPT !.history_count = 0, !.iters = 0],
                               Ev("on_event", s.week, s.e_block_id, Len(env.tickets))) IN
              IF env.tickets # <<>>
              THEN process_tickets([s1 EXCEPT !.phase = TICKETS], env.tickets)
              ELSE next_block_result([s1 EXCEPT !.phase = RESULTS], env)

(* ------------------------------ fixtures ------------------------------ *)
\* The fan-out asking for the results of the current block each time.
RECURSIVE catch_up_current_block(_, _)
catch_up_current_block(s, missing) ==
    IF missing = <<>> THEN s
    ELSE catch_up_current_block(next_result(s, s.e_block_id, 1, 0), Tail(missing))

\* resource_events_process, lines 446-448: one results request per missing
\* round, for the block mapped to it.
RECURSIVE catch_up(_, _)
catch_up(s, missing) ==
    IF missing = <<>> THEN s
    ELSE catch_up(next_result(s, get_block_by_week(s, Head(missing)), 1, 0),
                  Tail(missing))

\* For the log: 1 when nothing is known of a league, and the number of
\* entries held in blocks, league_games and required_weeks.
Clean(s) == IF s.blocks = EmptyDict /\ s.league_games = EmptyDict
               /\ ~s.cached /\ s.required_weeks = {} THEN 1 ELSE 0
Held(s) == Cardinality(DOMAIN s.blocks) + Cardinality(DOMAIN s.league_games)
           + Cardinality(s.required_weeks)

\* league_reset without line 400 (self.blocks = {}).
league_reset_keeps_blocks(s, data) ==
    IF data.leagueId # s.league \/ s.league = None
    THEN Logged([s EXCEPT !.auto_skip = IF data.matchDay = 1 THEN FALSE ELSE @,
                          !.league_games = EmptyDict,
                          !.cached = FALSE,
                          !.required_weeks = {},
                          !.league = data.leagueId],
                Ev("league_changed", s.league, data.leagueId,
                   Cardinality(DOMAIN s.blocks)))
    ELSE s

\* league_reset without the test of line 396 (match_day == 1).
league_reset_any_match_day(s, data) ==
    IF data.leagueId # s.league \/ s.league = None
    THEN Logged([s EXCEPT !.auto_skip = FALSE,
                          !.league_games = EmptyDict,
                          !.blocks = EmptyDict,
                          !.cached = FALSE,
                          !.required_weeks = {},
                          !.league = data.leagueId],
                Ev("league_changed", s.league, data.leagueId,
                   Cardinality(DOMAIN s.blocks)))
    ELSE s

\* league_reset without line 401 (self.cached = False).
league_reset_keeps_cached(s, data) ==
    IF data.leagueId # s.league \/ s.league = None
    THEN Logged([s EXCEPT !.auto_skip = IF data.matchDay = 1 THEN FALSE ELSE @,
                          !.league_games = EmptyDict,
                          !.blocks = EmptyDict,
                          !.required_weeks = {},
                          !.league = data.leagueId],
                Ev("league_changed", s.league, data.leagueId,
                   Cardinality(DOMAIN s.blocks)))
    ELSE s

\* resource_events_process, lines 394-403: a fixtures response of another
\* league (or the first one) clears what is known of the league.
league_reset(s, data) ==
    IF data.leagueId # s.league \/ s.league = None
    THEN Logged([s EXCEPT !.auto_skip = IF data.matchDay = 1 THEN FALSE ELSE @,
                          !.league_games = EmptyDict,
                          !.blocks = EmptyDict,
                          !.cached = FALSE,
                          !.required_weeks = {},
                          !.league = data.leagueId],
                Ev("league_changed", s.league, data.leagueId,
                   Cardinality(DOMAIN s.blocks)))
    ELSE s

\* resource_events_process.  data is the first item of the body: its block
\* id, league id and match day (None when the item lacks it).
resource_events_process(s, data, env) ==
    IF data.eBlockId = None \/ data.leagueId = None \/ data.matchDay = None
    THEN [s EXCEPT !.raised = "InvalidEvents"]
    ELSE
    LET s1 == league_reset([s EXCEPT !.e_block_id = data.eBlockId,
                                     !.abandoned = IF data.eBlockId = s.e_block_id
                                                   THEN @ ELSE None], data)
        s2 == [s1 EXCEPT !.week = data.matchDay]
    IN  IF s2.auto_skip
        THEN next_block_result([s2 EXCEPT !.phase = RESULTS], env)
        ELSE
        LET s3 == Logged([s2 EXCEPT !.table =
                              table_on_event(@, s2.league, s2.week)],
                         Ev("table_on_event", Clean(s2), s2.league, s2.week))
            missing == table_get_missing_weeks(s3.table)
        IN  IF missing = <<>> THEN dispatch_events(s3, env)
            ELSE IF s3.cached
                 THEN catch_up([s3 EXCEPT !.caching_multiple = TRUE], missing)
                 ELSE LET s4 == [s3 EXCEPT !.caching = TRUE, !.iters = 1] IN
                      next_history(s4, process_missing(s4, missing),
                                   HistoryBack, 0)

\* resource_events_process_resume taking the reset path whatever the block.
resume_always_resets(s, data, env) ==
    LET s1 == [s EXCEPT !.restoring = FALSE]
        s2 == reset_tickets(
                Logged(s1, Ev("reset_competition_tickets", None, None, None)))
    IN  resource_events_process(
            Logged(s2, Ev("reprocess", Held(s2), Len(s2.active_tickets), s2.league)),
            data, env)

\* resource_events_process_resume.  env.resume is the account
\* collaborator's answer (an in-flight ticket exists); a demo account is
\* never asked, which is the answer FALSE.
resource_events_process_resume(s, data, env) ==
    LET s1 == [s EXCEPT !.restoring = FALSE] IN
    IF data.eBlockId = s1.e_block_id
    THEN IF env.resume
         THEN Logged(s1, Ev("resume_competition", 1, None, None))
         ELSE next_block_result(s1, env)
    ELSE LET s2 == reset_tickets(
                     Logged(s1, Ev("reset_competition_tickets", None, None, None)))
         IN resource_events_process(
                Logged(s2, Ev("reprocess", Held(s2), Len(s2.active_tickets), s2.league)),
                data, env)

\* events_callback.  resp.shape tells whether the body is a non-empty list
\* whose first item is a dict; resp.data is that item.
events_callback(s, xs, resp, env) ==
    IF xs \notin DOMAIN s.event_xs THEN [s EXCEPT !.raised = "KeyError"]
    ELSE
    LET options == s.event_xs[xs]
        s1 == Logged([s EXCEPT !.event_xs = DictPop(@, xs)],
                     Ev("pop_events", xs, None, None))
        s2 == IF ~resp.shape THEN [s1 EXCEPT !.raised = "InvalidEvents"]
              ELSE IF s1.restoring
                   THEN resource_events_process_resume(s1, resp.data, env)
                   ELSE resource_events_process(s1, resp.data, env)
    IN  IF s2.raised = "InvalidEvents"
        THEN Suspend([s2 EXCEPT !.raised = ""],
                     Wait("events_retry", None, options.n, 0, <<>>))
        ELSE s2

(* ------------------------------- results ------------------------------ *)
\* resource_result_process feeding the table before it looks at auto_skip
\* (the branches taken without auto-skip left out).
result_process_feeds_first(s, data, env) ==
    LET b == data.eBlockId
        w == get_week_by_block(s, b)
        s1 == Logged([s EXCEPT !.table = table_feed_result(@, b, s.league, w, TRUE)],
                     Ev("feed_result", b, s.league, w))
    IN  IF s1.auto_skip
        THEN next_block_event([s1 EXCEPT !.phase = EVENTS])
        ELSE s1

\* resource_result_process.  data.eBlockId is the block the response is for.
resource_result_process(s, data, env) ==
    LET b == data.eBlockId
        w == get_week_by_block(s, b)
    IN  IF s.auto_skip
        THEN next_block_event([s EXCEPT !.phase = EVENTS])
        ELSE
        LET s1 == Logged([s EXCEPT !.table =
                              table_feed_result(@, b, s.league, w, TRUE)],
                         Ev("feed_result", b, s.league, w))
        IN  IF s1.caching_multiple
            THEN IF table_get_missing_weeks(s1.table) = <<>>
                 THEN dispatch_events([s1 EXCEPT !.caching_multiple = FALSE], env)
                 ELSE s1
            ELSE IF s1.fetching_future
            THEN IF table_check_weeks(s1.table, s1.required_weeks) = <<>>
                 THEN dispatch_events([s1 EXCEPT !.fetching_future = FALSE], env)
                 ELSE s1
            ELSE
            LET s2 == Logged(Logged(s1, Ev("on_result", b, w, None)),
                             Ev("validate_competition_tickets", None, None, None))
                s3 == IF s2.week = max_week
                      THEN Logged(s2, Ev("on_league_completed", s2.league, None, None))
                      ELSE s2
            IN  IF b = s3.e_block_id
                THEN next_block_event([s3 EXCEPT !.phase = EVENTS])
                ELSE s3

\* The handler of InvalidResults giving up one failure early.
results_invalid_early(s, payload, retry_count) ==
    IF retry_count >= MaxRetry
    THEN next_block_event([s EXCEPT !.auto_skip = TRUE,
                                    !.abandoned = payload.eBlockId])
    ELSE Suspend(s, Wait("results_retry", payload.eBlockId, payload.n,
                         retry_count + 1, <<>>))

\* The handler of InvalidResults re-issuing with the count it was given.
results_invalid_same_count(s, payload, retry_count) ==
    IF retry_count > MaxRetry
    THEN next_block_event([s EXCEPT !.auto_skip = TRUE,
                                    !.abandoned = payload.eBlockId])
    ELSE Suspend(s, Wait("results_retry", payload.eBlockId, payload.n,
                         retry_count, <<>>))

\* results_callback, lines 267-276: the handler of InvalidResults.
results_invalid(s, payload, retry_count) ==
    IF retry_count > MaxRetry
    THEN next_block_event([s EXCEPT !.auto_skip = TRUE,
                                    !.abandoned = payload.eBlockId])
    ELSE Suspend(s, Wait("results_retry", payload.eBlockId, payload.n,
                         retry_count + 1, <<>>))

\* results_callback.  resp.shape tells whether the body is a non-empty list
\* whose first item is a dict; the item answers the request's block.
results_callback(s, xs, resp, env) ==
    IF xs \notin DOMAIN s.result_xs THEN [s EXCEPT !.raised = "KeyError"]
    ELSE
    LET options == s.result_xs[xs]
        s1 == Logged([s EXCEPT !.result_xs = DictPop(@, xs)],
                     Ev("pop_results", xs, options.eBlockId, options.retry_count))
    IN  IF resp.shape
        THEN resource_result_process(s1, [eBlockId |-> options.eBlockId], env)
        ELSE results_invalid(s1, options, options.retry_count)

(* ------------------------------- history ------------------------------ *)
\* The entries of a batch, the league test of lines 313-314 left out.
all_entries(s, data) == data.entries

\* resource_history_process, lines 311-314: an entry whose league is not
\* the current one is skipped.
current_league_entries(s, data) ==
    {b \in data.entries : LeagueOfBlock(b) = s.league}

\* resource_history_process, lines 319-356: the fixture record built from
\* the events of the entry of block b and stored for round w.  The record
\* is the block it was built from and the revision of its content: 1 for
\* the first record of a round; a later entry for the round carries the
\* same events or (changed) other ones, e.g. other odds.
matches(games, b, w, changed) ==
    [block |-> b,
     rev |-> IF w \notin DOMAIN games THEN 1
             ELSE IF changed THEN 3 - games[w].rev ELSE games[w].rev]

\* resource_history_process.  data.entries are the blocks of the batch,
\* data.resulted those whose events carry a result.  An entry of another
\* league is skipped; an entry of this league maps its block to its round
\* and stores the round's fixture record (here: the block it came from).
resource_history_process(s, data, env) ==
    LET mine == current_league_entries(s, data)
        wks == {WeekOfBlock(b) : b \in mine}
        fed[S \in SUBSET mine] ==
            IF S = {} THEN s.table
            ELSE LET b == SetMax(S) IN
                 table_feed_result(fed[S \ {b}], b, s.league, WeekOfBlock(b),
                                   b \in data.resulted)
        skipped == data.entries \ mine
        s0 == IF skipped = {} THEN s
              ELSE Logged(s, Ev("league_skipped", Cardinality(skipped), None, None))
        s1 == [s0 EXCEPT
                 !.blocks = [b \in DOMAIN @ \cup mine |->
                               IF b \in mine THEN WeekOfBlock(b) ELSE @[b]],
                 !.league_games = [w \in DOMAIN @ \cup wks |->
                               IF w \in wks
                               THEN matches(@, CHOOSE b \in mine : WeekOfBlock(b) = w,
                                            w, data.changed)
                               ELSE @[w]],
                 !.table = IF s.caching THEN fed[mine] ELSE @]
    IN  IF s1.caching
        THEN LET missing == table_get_missing_weeks(s1.table) IN
             IF missing # <<>>
             THEN next_history([s1 EXCEPT !.iters = IF @ < MaxIters THEN @ + 1 ELSE @],
                               process_missing(s1, missing), HistoryBack, 0)
             ELSE dispatch_events([s1 EXCEPT !.caching = FALSE, !.iters = 0], env)
        ELSE IF s1.caching_future
        THEN IF get_missing_blocks(s1) # {}
             THEN IF DOMAIN s1.blocks = {}
                  THEN [s1 EXCEPT !.raised = "ValueError"]
                  ELSE next_block_future(s1, SetMax(DOMAIN s1.blocks))
             ELSE dispatch_events(
                      [s1 EXCEPT !.caching_future = FALSE, !.cached = TRUE,
                                 !.required_weeks = get_required_weeks(s1, env)],
                      env)
        ELSE s1

\* history_callback, lines 293-302: the handler of InvalidHistory.
history_invalid(s, payload, retry_count) ==
    IF retry_count > MaxRetry
    THEN next_block_event([s EXCEPT !.auto_skip = TRUE])
    ELSE Suspend(s, Wait("history_retry", payload.eBlockId, payload.n,
                         retry_count + 1, <<>>))

\* history_callback, lines 279-281: the tripwire on history_count, which
\* runs before the ledger is consulted and does not return.
history_tripwire(s) ==
    IF s.history_count > max_history_count
    THEN next_block_event([s EXCEPT !.auto_skip = TRUE])
    ELSE s

\* history_callback.  resp.shape tells whether the body is a list.
history_callback(s, xs, resp, env) ==
    LET s0 == history_tripwire(s) IN
    IF xs \notin DOMAIN s0.history_xs THEN [s0 EXCEPT !.raised = "KeyError"]
    ELSE
    LET options == s0.history_xs[xs]
        s1 == Logged([s0 EXCEPT !.history_xs = DictPop(@, xs)],
                     Ev("pop_history", xs, options.eBlockId, options.retry_count))
    IN  IF resp.shape
        THEN resource_history_process(s1, resp.data, env)
        ELSE history_invalid(s1, options, options.retry_count)

(* ------------------------- suspended coroutines ----------------------- *)
\* get_future_weeks: the block of the next round is looked up, then the
\* coroutine sleeps; the request goes out when it wakes.
future_next(s, weeks) ==
    IF weeks = <<>> THEN s
    ELSE Suspend(s, Wait("future_sleep", get_block_by_week(s, Head(weeks)),
                         1, 0, Tail(weeks)))

\* The code that follows the suspension w.
resume_wait(s, w) ==
    CASE w.k = "events_retry"  -> next_event(s, w.n)
      [] w.k = "results_retry" -> next_result(s, w.block, w.n, w.rc)
      [] w.k = "history_retry" -> next_history(s, w.block, w.n, w.rc)
      [] w.k = "block_result"  -> next_result(s, s.e_block_id, 1, 0)
      [] w.k = "future_task"   ->
            future_next([s EXCEPT !.fetching_future = TRUE], w.weeks)
      [] w.k = "future_sleep"  ->
            future_next(next_result(s, w.block, 1, 0), w.weeks)

wake(s, w) == resume_wait([s EXCEPT !.waits = @ (-) SetToBag({w})], w)

(* ----------------------------- connection ----------------------------- *)
\* start.
start(s) ==
    next_block_event(IF s.lost
                     THEN [s EXCEPT !.lost = FALSE, !.restoring = TRUE]
                     ELSE s)

\* The setter of `online`, with the start() it schedules.
set_online(s) ==
    LET s1 == IF ~s.online \/ s.lost THEN start(s) ELSE s IN
    [s1 EXCEPT !.online = TRUE]

\* on_ticket_complete.
on_ticket_complete(s, env) == next_block_result([s EXCEPT !.phase = RESULTS], env)

(* ------------------------------- inputs ------------------------------- *)
\* What the strategies, the clock and the account collaborator answer
\* while a handler runs.
Tickets == {<<>>, <<1>>}
Used == {{}, {1}, Weeks}
NoEnv == [wait |-> FALSE, tickets |-> <<>>, used |-> {}, resume |-> FALSE]
Asked(r, name) == \E i \in 1..Len(r.log) : r.log[i].ev = name

Envs == [wait : BOOLEAN, tickets : Tickets, used : Used, resume : BOOLEAN]

\* The answers a handler can get: those of the collaborators it asks.  H
\* maps each answer to the state the handler leaves with it.  Whether the
\* handler polls the strategies or awaits the event time is read off a run
\* with no tickets and no wait, which asks both whenever any run does.
Env(H, askUsed, askResume) ==
    UNION {
      LET r0 == H[[NoEnv EXCEPT !.used = u, !.resume = q]] IN
      [wait : IF Asked(r0, "await_event_time") THEN BOOLEAN ELSE {FALSE},
       tickets : IF Asked(r0, "on_event") THEN Tickets ELSE {<<>>},
       used : {u}, resume : {q}] :
      u \in (IF askUsed THEN Used ELSE {{}}),
      q \in (IF askResume THEN BOOLEAN ELSE {FALSE})}

Fixture(b, l, w) == [eBlockId |-> b, leagueId |-> l, matchDay |-> w]
\* A body that is no list, an empty list or a list of something else; an
\* item without league and match day; the fixtures of a round.  The feed
\* plays the rounds in order: the round it serves is the one it served
\* last or a later one.
EventsResponses ==
    {[shape |-> FALSE, data |-> Fixture(None, None, None)]}
    \cup {[shape |-> TRUE, data |-> Fixture(b, None, None)] : b \in {None, e_block_id}}
    \cup {[shape |-> TRUE, data |-> Fixture(b, LeagueOfBlock(b), WeekOfBlock(b))] :
            b \in {x \in Blocks : x >= live}}

ResultsResponses == {[shape |-> FALSE], [shape |-> TRUE]}

Batch(E, R) == [entries |-> E, resulted |-> R, changed |-> FALSE]
\* The batches that bring the round of a stored fixture record again, with
\* other events than the stored ones (on a connection without faults).
Redelivered(S) ==
    {[d EXCEPT !.data.changed = TRUE] :
        d \in {x \in S : /\ faults = 0 /\ efaults = 0 /\ losses = 0
                          /\ \E b \in x.data.entries :
                                /\ LeagueOfBlock(b) = league
                                /\ WeekOfBlock(b) \in DOMAIN league_games}}
\* A body that is no list; a batch of blocks of the current league, with
\* or without a block of another league, all with their results or (when
\* results are read at all) none.
HistoryBodies ==
    {[shape |-> FALSE, data |-> Batch({}, {})]}
    \cup UNION {
           {[shape |-> TRUE, data |-> Batch(M \cup F, M \cup F)]}
           \cup (IF caching THEN {[shape |-> TRUE, data |-> Batch(M \cup F, {})]}
                 ELSE {}) :
           M \in SUBSET {b \in Blocks : LeagueOfBlock(b) = league},
           F \in {{}, {BlockOf((league % NumLeagues) + 1, 1)}}}

HistoryResponses == HistoryBodies \cup Redelivered(HistoryBodies)

(* ------------------------------- actions ------------------------------ *)
\* The handler `op` ran on request `xs` and left the state r.
Apply(r, op, xs, ok) ==
    /\ ~r.ovf
    /\ online' = r.online
    /\ lost' = r.lost
    /\ restoring' = r.restoring
    /\ phase' = r.phase
    /\ e_block_id' = r.e_block_id
    /\ league' = r.league
    /\ week' = r.week
    /\ table' = r.table
    /\ caching' = r.caching
    /\ caching_future' = r.caching_future
    /\ cached' = r.cached
    /\ caching_multiple' = r.caching_multiple
    /\ fetching_future' = r.fetching_future
    /\ auto_skip' = r.auto_skip
    /\ required_weeks' = r.required_weeks
    /\ history_count' = r.history_count
    /\ event_xs' = r.event_xs
    /\ result_xs' = r.result_xs
    /\ history_xs' = r.history_xs
    /\ active_tickets' = r.active_tickets
    /\ blocks' = r.blocks
    /\ league_games' = r.league_games
    /\ waits' = r.waits
    /\ abandoned' = r.abandoned
    /\ iters' = r.iters
    /\ faults' = r.faults
    /\ efaults' = r.efaults
    /\ live' = r.live
    /\ restored < MaxRestored
    /\ restored' = IF r.losses = 0 THEN 0 ELSE restored + 1
    /\ dead' = IF r.online THEN dead ELSE InUse(r)
    /\ losses' = r.losses
    /\ polled' = IF \E i \in 1..Len(r.log) : r.log[i].ev = "on_event"
                 THEN r.e_block_id
                 ELSE IF op = "results_callback" /\ ok /\ r.raised = ""
                         /\ r.log[1].b = polled
                      THEN None
                      ELSE polled
    /\ polls' = LET n == Cardinality({i \in 1..Len(r.log) : r.log[i].ev = "on_event"})
                    m == IF op = "events_callback" /\ ok /\ r.raised = ""
                         THEN n ELSE polls + n
                IN  IF m > MaxPolls THEN MaxPolls ELSE m
    /\ last' = [op |-> op, xs |-> xs, ok |-> ok, raised |-> r.raised,
                log |-> r.log, from |-> phase]
    /\ UNCHANGED ShutdownVars

Init ==
    /\ online = FALSE
    /\ lost = FALSE
    /\ restoring = FALSE
    /\ phase = SLEEPING
    /\ e_block_id = None
    /\ league = None
    /\ week = None
    /\ table = NewTable
    /\ caching = FALSE
    /\ caching_future = FALSE
    /\ cached = FALSE
    /\ caching_multiple = FALSE
    /\ fetching_future = FALSE
    /\ auto_skip = FALSE
    /\ required_weeks = {}
    /\ history_count = 0
    /\ event_xs = EmptyDict
    /\ result_xs = EmptyDict
    /\ history_xs = EmptyDict
    /\ active_tickets = <<>>
    /\ blocks = EmptyDict
    /\ league_games = EmptyDict
    /\ waits = EmptyBag
    /\ abandoned = None
    /\ iters = 0
    /\ faults = 0
    /\ efaults = 0
    /\ live = None
    /\ restored = 0
    /\ dead = {}
    /\ losses = 0
    /\ polled = None
    /\ polls = 0
    /\ last = [op |-> "init", xs |-> None, ok |-> TRUE, raised |-> "",
               log |-> <<>>, from |-> SLEEPING]
    /\ players = {}
    /\ closing = {}
    /\ exit_tasks = EmptyDict
    /\ exit_pc = "idle"
    /\ socket_open = TRUE

\* The feed fails one results or history request of a run: the malformed
\* response goes to a request that is the faults-th re-issue.
MayFail(options) ==
    losses = 0 /\ faults < MaxFaults /\ options.retry_count = faults
Faulted(s, wellformed) == IF wellformed THEN s ELSE [s EXCEPT !.faults = @ + 1]
Served(s, resp) ==
    IF resp.shape /\ resp.data.leagueId # None
    THEN [s EXCEPT !.live = resp.data.eBlockId]
    ELSE [s EXCEPT !.efaults = @ + 1]

\* The transport delivers the response to an outstanding fixtures request.
ReceiveEvents ==
    \E xs \in DOMAIN event_xs \ dead, resp \in EventsResponses :
      \E env \in Env([e \in Envs |-> events_callback(Cur, xs, resp, e)], FALSE, restoring) :
        /\ (resp.shape /\ resp.data.leagueId # None) \/ efaults < MaxEventFaults
        /\ Apply(events_callback(Served(Cur, resp), xs, resp, env),
                 "events_callback", xs, resp.shape /\ resp.data.leagueId # None)

ReceiveResults ==
    \E xs \in DOMAIN result_xs \ dead, resp \in ResultsResponses :
      \E env \in Env([e \in Envs |-> results_callback(Cur, xs, resp, e)], FALSE, FALSE) :
        /\ resp.shape \/ MayFail(result_xs[xs])
        /\ Apply(results_callback(Faulted(Cur, resp.shape), xs, resp, env),
                 "results_callback", xs, resp.shape)

ReceiveHistory ==
    \E xs \in DOMAIN history_xs \ dead, resp \in HistoryResponses :
      \E env \in Env([e \in Envs |-> history_callback(Cur, xs, resp, e)],
                      caching_future /\ ~caching, FALSE) :
        /\ resp.shape \/ MayFail(history_xs[xs])
        /\ Apply(history_callback(Faulted(Cur, resp.shape), xs, resp, env),
                 "history_callback", xs, resp.shape)

\* The transport breaks its contract: a response for an id that no
\* outstanding request of the kind holds (answered already, or never sent).
Stray(ledger) == {xs \in Xs \ DOMAIN ledger : \A y \in Xs \ DOMAIN ledger : xs <= y}
ReceiveUnknown ==
    /\ faults = 0 /\ efaults = 0 /\ losses = 0
    /\ \/ \E xs \in Stray(event_xs) :
            Apply(events_callback(Cur, xs, [shape |-> TRUE,
                      data |-> Fixture(BlockOf(1, 1), 1, 1)], NoEnv),
                  "events_callback", xs, TRUE)
       \/ \E xs \in Stray(result_xs) :
            Apply(results_callback(Cur, xs, [shape |-> TRUE], NoEnv),
                  "results_callback", xs, TRUE)
       \/ \E xs \in Stray(history_xs) :
            Apply(history_callback(Cur, xs, [shape |-> TRUE,
                      data |-> Batch({}, {})], NoEnv),
                  "history_callback", xs, TRUE)

\* A sleep ends, or the loop runs the task it was given.
Wake ==
    \E w \in BagToSet(waits) : Apply(wake(Cur, w), w.k, None, TRUE)

\* The user's socket goes online (the first time, or again after a loss).
SetOnline ==
    /\ ~online \/ lost
    /\ Apply(set_online(Cur), "start", None, TRUE)

\* The user's socket is lost.
ConnectionLost ==
    /\ online /\ ~lost
    /\ losses < MaxLosses
    /\ faults = 0 /\ efaults = 0
    /\ Apply([Cur EXCEPT !.online = FALSE, !.lost = TRUE, !.losses = @ + 1],
             "lost", None, TRUE)

\* The ticket manager reports the tickets of the round as placed.
TicketComplete ==
    /\ phase = TICKETS
    /\ \E env \in Env([e \in Envs |-> on_ticket_complete(Cur, e)], FALSE, FALSE) :
         Apply(on_ticket_complete(Cur, env), "on_ticket_complete", None, TRUE)

Next ==
    \/ ReceiveEvents
    \/ ReceiveResults
    \/ ReceiveHistory
    \/ ReceiveUnknown
    \/ Wake
    \/ SetOnline
    \/ ConnectionLost
    \/ TicketComplete

Spec == Init /\ [][Next]_vars

(* ------------------------------ shutdown ------------------------------ *)
\* The strategies answer the engine through the inputs of its handlers, so
\* the actions above do not read `players`; installation and shutdown are
\* followed on their own, from the same constructed object.
Players == 1..MaxPlayers

\* init(): the strategies named in installed_players are instantiated,
\* stored in players and made active.
InstallPlayers ==
    /\ exit_pc = "idle"
    /\ players = {}
    /\ \E installed \in SUBSET Players \ {{}} : players' = installed
    /\ UNCHANGED <<closing, exit_tasks, exit_pc, socket_open, ModelVars>>

\* exit(), lines 760-764: the loop sets closing on every strategy and
\* creates the task of its exit(); no task runs before the loop has ended,
\* since the loop does not await.  asyncio.wait raises ValueError when it
\* is given no task.
Exit ==
    /\ exit_pc = "idle"
    /\ closing' = players
    /\ exit_tasks' = [p \in players |-> "created"]
    /\ exit_pc' = IF players = {} THEN "ValueError" ELSE "waiting"
    /\ UNCHANGED <<players, socket_open, ModelVars>>

\* The task of one strategy's exit(): it starts, then returns or raises.
PlayerExit ==
    /\ \E p \in DOMAIN exit_tasks :
          \/ /\ exit_tasks[p] = "created"
             /\ exit_tasks' = [exit_tasks EXCEPT ![p] = "running"]
          \/ /\ exit_tasks[p] = "running"
             /\ \E end \in {"done", "raised"} :
                   exit_tasks' = [exit_tasks EXCEPT ![p] = end]
    /\ UNCHANGED <<players, closing, exit_pc, socket_open, ModelVars>>

\* exit(), lines 764-766: asyncio.wait(ALL_COMPLETED) returns when every
\* task has returned or raised; then the socket's exit() is called.
SocketExit ==
    /\ exit_pc = "waiting"
    /\ \A p \in DOMAIN exit_tasks : exit_tasks[p] \in {"done", "raised"}
    /\ socket_open' = FALSE
    /\ exit_pc' = "returned"
    /\ UNCHANGED <<players, closing, exit_tasks, ModelVars>>

NextExit ==
    \/ InstallPlayers
    \/ Exit
    \/ PlayerExit
    \/ SocketExit

SpecExit == Init /\ [][NextExit]_vars

(* ======================= the request ledger (C1) ====================== *)
\* The attributes of the engine (the observers and the feed left out).
EngineVars == <<online, lost, restoring, phase, e_block_id, league, week, table,
                caching, caching_future, cached, caching_multiple,
                fetching_future, auto_skip, required_weeks, history_count,
                event_xs, result_xs, history_xs, active_tickets, blocks,
                league_games, waits>>

\* Positions of the entries named `name` in the log of the step l.
Idx(l, name) == {i \in 1..Len(l.log) : l.log[i].ev = name}

\* One kind of request in one step: L is the ledger before, L1 after, l
\* the record of the step, cb its callback, snd and pop its log entries.
Registered(l, snd, L1) ==
    \A i \in Idx(l, snd) :
        /\ l.log[i].a \in DOMAIN L1
        /\ IF snd = "send_events"
           THEN L1[l.log[i].a].n = l.log[i].c
           ELSE /\ L1[l.log[i].a].eBlockId = l.log[i].b
                /\ L1[l.log[i].a].retry_count = l.log[i].c

StaysUntilAnswered(l, cb, L, L1) ==
    \A x \in DOMAIN L :
        (x \notin DOMAIN L1 \/ L1[x] # L[x]) => (l.op = cb /\ l.xs = x)

RemovedOnce(l, cb, snd, pop, L, L1) ==
    (l.op = cb /\ l.xs \in DOMAIN L) =>
        /\ l.raised # "KeyError"
        /\ Idx(l, pop) = {1}
        /\ l.log[1].a = l.xs
        /\ (l.xs \in DOMAIN L1 => \E i \in Idx(l, snd) : l.log[i].a = l.xs)

UnknownFails(l, cb, L) ==
    (l.op = cb /\ l.xs \notin DOMAIN L) =>
        /\ l.raised = "KeyError"
        /\ l.log = <<>>
        /\ UNCHANGED EngineVars

LedgerStep(l, cb, snd, pop, L, L1) ==
    /\ Registered(l, snd, L1)
    /\ StaysUntilAnswered(l, cb, L, L1)
    /\ RemovedOnce(l, cb, snd, pop, L, L1)
    /\ UnknownFails(l, cb, L)

\* C1: every fixtures, results and history request sent is in its kind's
\* ledger under the id send returned; an entry leaves the ledger (or is
\* replaced) only in the callback of a response for its id; that callback
\* removes it once, first thing, for a well-formed and for a malformed
\* response alike; a response whose id is not in the ledger (answered
\* before, or never sent) raises KeyError and changes nothing.
C1_LedgerDiscipline ==
    [][ /\ LedgerStep(last', "events_callback", "send_events", "pop_events",
                       event_xs, event_xs')
        /\ LedgerStep(last', "results_callback", "send_results", "pop_results",
                       result_xs, result_xs')
        /\ LedgerStep(last', "history_callback", "send_history", "pop_history",
                       history_xs, history_xs') ]_vars

\* A malformed results response has removed the entry of its request.
C1_Witness ==
    /\ last.op = "results_callback" /\ ~last.ok
    /\ Idx(last, "pop_results") = {1}
    /\ last.xs \notin DOMAIN result_xs

(* ===================== retries and auto-skip (C2-C5) ================== *)
\* The step l is the callback cb of a malformed response to a request
\* that is in the ledger.
Malformed(l, cb) == l.op = cb /\ ~l.ok /\ l.raised # "KeyError"

\* The retry count of the request the step answered (from its pop entry),
\* which is also the number of malformed responses the request and its
\* predecessors got before this one.
RetryCountOf(l) == l.log[1].c

NoSend(l) ==
    Idx(l, "send_events") \cup Idx(l, "send_results") \cup Idx(l, "send_history") = {}

\* The step sent a fixtures request and no other request.
SendsFixturesOnly(l) ==
    /\ Idx(l, "send_events") # {}
    /\ Idx(l, "send_results") \cup Idx(l, "send_history") = {}

\* The step sent nothing and left one more coroutine asleep: the re-issue
\* of the request p with retry count rc.
Reissues(l, kind, p, rc) ==
    /\ NoSend(l)
    /\ waits' = waits (+) SetToBag({Wait(kind, p.eBlockId, p.n, rc, <<>>)})

\* C2 (as the code has it): when the results request of a round and each
\* of its re-issues get a malformed payload, the first four failures each
\* schedule a re-issue and leave auto-skip as it was; the fifth failure
\* (retry count 4) latches auto-skip, and the request that goes out then
\* is a fixtures request, not a results request.
C2_LatchAfterFiveFailures ==
    [][ Malformed(last', "results_callback") =>
          IF RetryCountOf(last') + 1 = MaxRetry + 2
          THEN auto_skip' /\ SendsFixturesOnly(last')
          ELSE /\ RetryCountOf(last') + 1 < MaxRetry + 2
               /\ auto_skip' = auto_skip
               /\ Reissues(last', "results_retry", result_xs[last'.xs],
                           RetryCountOf(last') + 1) ]_vars

\* The fifth malformed response in a row has latched auto-skip and sent a
\* fixtures request.
C2_Witness ==
    /\ Malformed(last, "results_callback")
    /\ RetryCountOf(last) = MaxRetry + 1
    /\ auto_skip
    /\ SendsFixturesOnly(last)

\* C2 as stated: the fourth malformed response in a row (retry count 3)
\* latches auto-skip and sends a fixtures request.
C2_LatchAfterFourFailures ==
    [][ (Malformed(last', "results_callback") /\ RetryCountOf(last') + 1 = MaxRetry + 1)
          => (auto_skip' /\ SendsFixturesOnly(last')) ]_vars

\* One kind (results or history) of C3: L is its ledger before the step.
GiveUpOrRetry(l, cb, snd, retry, L) ==
    Malformed(l, cb) =>
        IF RetryCountOf(l) > MaxRetry
        THEN /\ auto_skip'
             /\ phase' = EVENTS
             /\ Idx(l, "send_events") # {}
             /\ Idx(l, snd) = {}
             /\ waits' = waits
        ELSE /\ Reissues(l, retry, L[l.xs], RetryCountOf(l) + 1)
             /\ auto_skip' = auto_skip
             /\ phase' = phase

\* C3: a malformed results or history response to a request with retry
\* count above 3 sets auto-skip, sets the phase to EVENTS, sends a fixtures
\* request and does not re-issue the request; with retry count 3 or less
\* the request is re-issued with the count one higher and auto-skip and
\* phase stay as they were.
C3_GiveUpForcesAwaitingEvents ==
    [][ /\ GiveUpOrRetry(last', "results_callback", "send_results",
                          "results_retry", result_xs)
        /\ GiveUpOrRetry(last', "history_callback", "send_history",
                          "history_retry", history_xs) ]_vars

\* A results request has exhausted its retries while the phase was RESULTS.
C3_Witness ==
    /\ Malformed(last, "results_callback")
    /\ RetryCountOf(last) > MaxRetry
    /\ auto_skip
    /\ phase = RESULTS

\* C4: when retry exhaustion on a results (history) request latches
\* auto-skip, the results (history) ledger is empty.
C4_LedgerEmptyAtLatch ==
    [][ /\ (Malformed(last', "results_callback") /\ RetryCountOf(last') > MaxRetry)
              => result_xs' = EmptyDict
        /\ (Malformed(last', "history_callback") /\ RetryCountOf(last') > MaxRetry)
              => history_xs' = EmptyDict ]_vars

\* A results request has exhausted its retries while the request of
\* another round is still in the results ledger.
C4_Witness ==
    /\ Malformed(last, "results_callback")
    /\ RetryCountOf(last) > MaxRetry
    /\ auto_skip
    /\ result_xs # EmptyDict

\* C5: once the results request of a block has exhausted its retries, no
\* step sends a results request for that block again.
C5_NoRequestForAbandonedBlock ==
    [][ abandoned # None =>
          \A i \in Idx(last', "send_results") : last'.log[i].b # abandoned ]_vars

\* Under auto-skip, a fixtures response that reports the abandoned block
\* again has sent a results request for it.
C5_Witness ==
    /\ last.op = "events_callback"
    /\ auto_skip
    /\ abandoned # None
    /\ \E i \in Idx(last, "send_results") : last.log[i].b = abandoned

(* ======================= backfill and progress (C6, C7) =============== *)
\* C6: a history response that arrives when the running backfill has made
\* more than 5 iterations is dropped: auto-skip is set, the response is not
\* processed, no history request follows, and the engine is in EVENTS with
\* a fixtures request sent; so a backfill never issues more history
\* requests than that.
C6_BackfillAbandonedAfterFive ==
    [][ (last'.op = "history_callback" /\ last'.raised # "KeyError"
         /\ caching /\ iters > max_history_count) =>
          /\ auto_skip'
          /\ Idx(last', "send_history") = {}
          /\ Idx(last', "send_events") # {}
          /\ phase' = EVENTS
          /\ UNCHANGED <<blocks, league_games, table>> ]_vars

\* A backfill has sent its seventh history request in a row.
C6_Witness ==
    /\ last.op = "history_callback"
    /\ caching /\ ~auto_skip
    /\ iters > max_history_count + 1
    /\ Idx(last, "send_history") # {}

\* C7: a started engine always has something pending: a request in a
\* ledger, a suspended coroutine, or the tickets of the round being placed.
C7_NeverQuiescent ==
    (online /\ ~lost) =>
        \/ event_xs # EmptyDict
        \/ result_xs # EmptyDict
        \/ history_xs # EmptyDict
        \/ waits # EmptyBag
        \/ phase = TICKETS

\* A handler has ended and left the started engine with no request in any
\* ledger and no coroutine suspended.
C7_Witness ==
    /\ online /\ ~lost
    /\ last.op \in {"history_callback", "results_callback", "events_callback"}
    /\ event_xs = EmptyDict /\ result_xs = EmptyDict /\ history_xs = EmptyDict
    /\ waits = EmptyBag
    /\ phase # TICKETS

(* ========================== league change (C8) ======================== *)
\* C8: when a well-formed fixtures response changes the league (or sets
\* the first one), blocks, league_games, cached and required_weeks are
\* already cleared when the table is notified, and the handler leaves them
\* cleared: it records nothing of either league in them.
C8_LeagueChangeClears ==
    [][ (last'.op = "events_callback" /\ league' # league) =>
          /\ Idx(last', "league_changed") # {}
          /\ \A i \in Idx(last', "table_on_event") :
                /\ last'.log[i].a = 1
                /\ \E j \in Idx(last', "league_changed") : j < i
          /\ blocks' = EmptyDict
          /\ league_games' = EmptyDict
          /\ ~cached'
          /\ required_weeks' = {} ]_vars

\* A fixtures response of another league arrived while blocks of the old
\* league were mapped, and the table was notified after the clearing.
C8_Witness ==
    /\ last.op = "events_callback"
    /\ \E j \in Idx(last, "league_changed") :
          /\ last.log[j].a # None
          /\ last.log[j].c > 0
          /\ \E i \in Idx(last, "table_on_event") : j < i
    /\ blocks = EmptyDict

(* ============================== resume (C9, C10) ====================== *)
\* The step is the callback of a well-formed fixtures response that
\* arrived while restoring; live' is the block it reports.
ResumeStep == last'.op = "events_callback" /\ last'.ok /\ restoring

\* C9: when the fixtures response of a resume reports another block than
\* the last one known, the response is reprocessed as fresh fixtures with
\* league_games, blocks and required_weeks empty, whatever its league.
\* (The clearing that opens the reprocessing of a response of another
\* league is counted in: the three are looked at when the handler ends,
\* and the processing of fixtures adds nothing to them.)
C9_ResetEmptiesBeforeReprocess ==
    [][ (ResumeStep /\ live' # e_block_id) =>
          /\ Idx(last', "reprocess") # {}
          /\ blocks' = EmptyDict
          /\ league_games' = EmptyDict
          /\ required_weeks' = {} ]_vars

\* A resume in the same league with another block has reprocessed the
\* response and blocks, league_games or required_weeks still hold what
\* they held.
C9_Witness ==
    /\ last.op = "events_callback" /\ last.ok
    /\ Idx(last, "league_changed") = {}
    /\ \E i \in Idx(last, "reprocess") :
          /\ last.log[i].a > 0
          /\ last.log[i].a = Cardinality(DOMAIN blocks)
                + Cardinality(DOMAIN league_games) + Cardinality(required_weeks)

\* C10: when the fixtures response of a resume reports the last block
\* known, nothing is reset (active_tickets, blocks, league_games, league,
\* week and the block are unchanged, the table is not notified, the
\* response is not reprocessed) and the engine is no longer restoring; if
\* the account reports a ticket in flight nothing is sent, otherwise the
\* event time of that block is awaited and the results request for it is
\* sent at once or, when the time lies ahead, left to a suspended coroutine.
C10_ResumeKeepsState ==
    [][ (ResumeStep /\ live' = e_block_id) =>
          /\ ~restoring'
          /\ UNCHANGED <<active_tickets, blocks, league_games, league, week,
                          e_block_id, table, phase>>
          /\ Idx(last', "reprocess") \cup Idx(last', "table_on_event")
                \cup Idx(last', "reset_competition_tickets")
                \cup Idx(last', "league_changed") = {}
          /\ IF Idx(last', "resume_competition") # {}
             THEN NoSend(last') /\ waits' = waits
             ELSE /\ \E i \in Idx(last', "await_event_time") :
                        last'.log[i].a = e_block_id
                  /\ Idx(last', "send_events") \cup Idx(last', "send_history") = {}
                  /\ \/ /\ waits' = waits
                        /\ \E i \in Idx(last', "send_results") :
                              /\ Idx(last', "send_results") = {i}
                              /\ last'.log[i].b = e_block_id
                              /\ last'.log[i].c = 0
                     \/ /\ Idx(last', "send_results") = {}
                        /\ waits' = waits (+)
                             SetToBag({Wait("block_result", None, 1, 0, <<>>)}) ]_vars

\* A resume found its block unchanged and sent the results request for it.
C10_Witness ==
    /\ last.op = "events_callback" /\ last.ok
    /\ losses > 0 /\ ~restoring
    /\ Idx(last, "reprocess") = {}
    /\ live = e_block_id
    /\ \E i \in Idx(last, "send_results") : last.log[i].b = e_block_id
    /\ Idx(last, "pop_events") # {} /\ Idx(last, "table_on_event") = {}
    /\ ~auto_skip

(* ============================ the phase (C11) ========================= *)
\* A change of the phase from p to q that the cycle allows; op is the
\* handler that made it.
InCycle(p, q, op) ==
    \/ p = SLEEPING /\ q = EVENTS
    \/ p = EVENTS /\ q \in {TICKETS, RESULTS}
    \/ p = TICKETS /\ q = RESULTS /\ op = "on_ticket_complete"
    \/ p \in {TICKETS, RESULTS} /\ q = EVENTS

\* C11: the phase changes only along SLEEPING -> EVENTS -> (TICKETS |
\* RESULTS) -> EVENTS, with TICKETS -> RESULTS when the tickets complete,
\* and whenever the started engine has a fixtures request outstanding its
\* phase is EVENTS.
C11_PhaseFollowsCycle ==
    [][ /\ (phase' # phase => InCycle(phase, phase', last'.op))
        /\ ((online' /\ event_xs' # EmptyDict) => phase' = EVENTS) ]_vars

\* start has sent the first fixtures request and the phase is still
\* SLEEPING.
C11_Witness ==
    /\ last.op = "start"
    /\ online
    /\ Idx(last, "send_events") # {}
    /\ event_xs # EmptyDict
    /\ phase = SLEEPING

(* ======================= malformed fixtures (C12) ===================== *)
\* The step l is the callback of a malformed fixtures response (no list,
\* an empty list, an item that is no dict or lacks block, league or match
\* day) to a request that is in the ledger.
MalformedFixtures(l) == Malformed(l, "events_callback")

\* The step woke the sleep of a fixtures retry and sent one fixtures
\* request with the cursor the sleep kept, and nothing else.
ReissuesFixtures(l) ==
    \E w \in BagToSet(waits) :
        /\ w.k = "events_retry"
        /\ waits' = waits (-) SetToBag({w})
        /\ \E i \in Idx(l, "send_events") :
              /\ Idx(l, "send_events") = {i}
              /\ l.log[i].c = w.n
        /\ Idx(l, "send_results") \cup Idx(l, "send_history") = {}

\* C12: a malformed fixtures response sends nothing itself and leaves one
\* sleep behind, which re-issues one fixtures request with the cursor of
\* the request that failed; auto-skip, phase, league, round, block map and
\* table are as they were, however many responses failed before.
C12_MalformedFixturesRetried ==
    [][ /\ MalformedFixtures(last') =>
              /\ NoSend(last')
              /\ waits' = waits (+) SetToBag(
                    {Wait("events_retry", None, event_xs[last'.xs].n, 0, <<>>)})
              /\ UNCHANGED <<auto_skip, phase, league, week, blocks, table>>
        /\ last'.op = "events_retry" => ReissuesFixtures(last') ]_vars

\* While restoring, a fixtures item that has the block last known but no
\* league and no match day was taken for a successful resume: no retry was
\* scheduled.
C12_Witness ==
    /\ MalformedFixtures(last)
    /\ losses > 0 /\ ~restoring
    /\ \A w \in BagToSet(waits) : w.k # "events_retry"
    /\ Idx(last, "await_event_time") \cup Idx(last, "resume_competition") # {}

(* ========================= dispatch (C13, C14) ======================== *)
\* The gaps dispatch evaluation looks for, in the state a handler leaves
\* (dispatch evaluation is the last thing a handler does, and neither the
\* history fetch nor the prefetch task it starts touches blocks, the table
\* or required_weeks): rounds no block is mapped to, and required rounds
\* the table has no result for.
UnmappedRounds == {w \in Weeks : \A b \in DOMAIN blocks' : blocks'[b] # w}
UnsatisfiedRounds == {w \in required_weeks' : w \notin table'.results}

\* C13: the strategies are polled (on_event) only when every round has a
\* block mapped and the table has a result for every required round; when
\* dispatch evaluation finds a round unmapped it sends one forward history
\* request, when it finds a required round unsatisfied it starts the
\* prefetch task, and in both cases it polls no strategy.
C13_PollOnlyWithoutGaps ==
    [][ /\ Idx(last', "on_event") # {} =>
              /\ UnmappedRounds = {}
              /\ UnsatisfiedRounds = {}
              /\ Idx(last', "dispatch_events") # {}
        /\ Idx(last', "dispatch_events") # {} =>
              IF UnmappedRounds # {}
              THEN /\ Idx(last', "on_event") = {}
                   /\ caching_future'
                   /\ \E i \in Idx(last', "send_history") :
                         /\ Idx(last', "send_history") = {i}
                         /\ history_xs'[last'.log[i].a].n = HistoryForward
              ELSE IF UnsatisfiedRounds # {}
              THEN /\ Idx(last', "on_event") = {}
                   /\ Idx(last', "create_task") # {}
                   /\ NoSend(last')
                   /\ \E w \in BagToSet(waits') :
                         /\ w.k = "future_task"
                         /\ SeqToSet(w.weeks) = UnsatisfiedRounds
              ELSE Idx(last', "on_event") # {} ]_vars

\* Dispatch evaluation ran where every round was mapped but a required
\* round had no result: the prefetch task was started and no strategy
\* polled.
C13_Witness ==
    /\ Idx(last, "dispatch_events") # {}
    /\ Weeks \subseteq Range(blocks)
    /\ \E w \in required_weeks : w \notin table.results
    /\ Idx(last, "create_task") # {}
    /\ Idx(last, "on_event") = {}

\* The step l awaited the event time (log entry after position i) and then
\* sent one results request for the current block with retry count 0, or
\* left that to the coroutine it suspended because the time lies ahead.
ResultsAfterEventTime(l, i) ==
    /\ \E j \in Idx(l, "await_event_time") : j > i
    /\ Idx(l, "send_events") \cup Idx(l, "send_history") = {}
    /\ \/ /\ waits' = waits
          /\ \E k \in Idx(l, "send_results") :
                /\ Idx(l, "send_results") = {k}
                /\ \E j \in Idx(l, "await_event_time") : i < j /\ j < k
                /\ l.log[k].b = e_block_id'
                /\ l.log[k].c = 0
       \/ /\ Idx(l, "send_results") = {}
          /\ waits' = waits (+) SetToBag({Wait("block_result", None, 1, 0, <<>>)})

\* C14: when dispatch evaluation has polled the strategies, the phase is
\* TICKETS if the pool has a ticket and RESULTS if it has none.  With no
\* ticket the event time is awaited and one results request for the
\* current block is sent after it.  With tickets nothing is sent; the
\* results request of the block is sent (after the event time) when the
\* ticket manager signals completion, and by no other step while the phase
\* is TICKETS.
C14_TicketsOrResults ==
    [][ /\ \A i \in Idx(last', "on_event") :
              IF last'.log[i].c > 0
              THEN /\ phase' = TICKETS
                   /\ Idx(last', "process_tickets") # {}
                   /\ Len(active_tickets') = last'.log[i].c
                   /\ NoSend(last')
                   /\ Idx(last', "await_event_time") = {}
                   /\ waits' = waits
              ELSE /\ phase' = RESULTS
                   /\ Idx(last', "process_tickets") = {}
                   /\ ResultsAfterEventTime(last', i)
        /\ last'.op = "on_ticket_complete" =>
              /\ phase' = RESULTS
              /\ ResultsAfterEventTime(last', 0)
        /\ (phase = TICKETS /\ last'.op # "on_ticket_complete" /\ losses = 0) =>
              \A k \in Idx(last', "send_results") : last'.log[k].b # e_block_id' ]_vars

\* With the tickets of the round being placed (phase TICKETS) and no
\* completion signalled, a results response polled the strategies again
\* and the results request of the current block was sent.
C14_Witness ==
    /\ last.op = "results_callback" /\ last.ok
    /\ losses = 0
    /\ last.from = TICKETS
    /\ phase = RESULTS
    /\ Idx(last, "on_event") # {}
    /\ \E k \in Idx(last, "send_results") : last.log[k].b = e_block_id

(* ====================== results notification (C15) ==================== *)
\* The step l is the callback of a well-formed results response to a
\* request that is in the ledger; its first log entry is the pop, which
\* keeps the block of the request.
ResultsProcessed(l) == l.op = "results_callback" /\ l.ok /\ l.raised = ""

\* C15: when the well-formed results response of the block the strategies
\* were polled for is processed (auto-skip not latched), on_result is
\* called once and ticket settlement once; a results response processed
\* under auto-skip, in catch-up or in prefetch mode calls on_result not at
\* all.
C15_OnResultOncePerPolledRound ==
    [][ ResultsProcessed(last') =>
          /\ (polled # None /\ last'.log[1].b = polled /\ ~auto_skip /\ losses = 0) =>
                /\ Cardinality(Idx(last', "on_result")) = 1
                /\ Cardinality(Idx(last', "validate_competition_tickets")) = 1
          /\ (auto_skip \/ caching_multiple \/ fetching_future) =>
                Idx(last', "on_result") = {} ]_vars


\* With no connection lost, the results response of the block the
\* strategies were polled for was processed in prefetch or catch-up mode
\* (a flag left set): the table was fed, on_result was not called, and the
\* strategies were polled a second time for the same round.
C15_Witness ==
    /\ ResultsProcessed(last)
    /\ losses = 0
    /\ last.log[1].b = e_block_id
    /\ Idx(last, "feed_result") # {}
    /\ Idx(last, "on_result") = {}
    /\ Idx(last, "on_event") # {}
    /\ polls = 2

(* ========================== retry counts (C16) ======================== *)
\* Requests of one kind in the step l: snd their log entry, retry the
\* sleep whose end re-issues, L1 the ledger the step leaves.  A request
\* sent by the end of a retry sleep carries the block and the count the
\* sleep kept, which is 1 or more; every other request carries the count 0.
CountsOfSends(l, snd, retry, L1) ==
    \A i \in Idx(l, snd) :
        /\ L1[l.log[i].a].retry_count = l.log[i].c
        /\ IF l.op = retry
           THEN \E w \in BagToSet(waits) :
                   /\ w.k = retry
                   /\ waits' = waits (-) SetToBag({w})
                   /\ l.log[i].b = w.block
                   /\ l.log[i].c = w.rc
                   /\ w.rc >= 1
           ELSE l.log[i].c = 0

\* A malformed response that does not give up leaves one sleep that keeps
\* the count of the failed entry plus one; a well-formed response leaves
\* no retry sleep.
CountsOfRetries(l, cb, retry, L) ==
    /\ (Malformed(l, cb) /\ RetryCountOf(l) <= MaxRetry) =>
          /\ L[l.xs].retry_count = RetryCountOf(l)
          /\ waits' = waits (+) SetToBag(
                {Wait(retry, L[l.xs].eBlockId, L[l.xs].n, L[l.xs].retry_count + 1, <<>>)})
    /\ (l.op = cb /\ l.ok) =>
          \A w \in BagToSet(waits') :
              w.k = retry => CopiesIn(w, waits') <= CopiesIn(w, waits)

\* C16: a results or history request is registered with retry count 0
\* unless it is the re-issue after a malformed response, which carries the
\* count of the failed entry plus one; a well-formed response re-issues
\* nothing, so it neither increments a count nor carries one over.
C16_RetryCounts ==
    [][ /\ CountsOfSends(last', "send_results", "results_retry", result_xs')
        /\ CountsOfSends(last', "send_history", "history_retry", history_xs')
        /\ CountsOfRetries(last', "results_callback", "results_retry", result_xs)
        /\ CountsOfRetries(last', "history_callback", "history_retry", history_xs) ]_vars

\* The third re-issue of a results request is in the ledger with count 3,
\* and a fresh request with count 0 was sent before it was answered.
C16_Witness ==
    /\ \E x \in DOMAIN result_xs : result_xs[x].retry_count = 3
    /\ last.op # "results_retry"
    /\ \E i \in Idx(last, "send_results") : last.log[i].c = 0

(* ============================= shutdown (C17) ========================= *)
\* C17: no strategy's shutdown task has started before every strategy is
\* signalled to stop; the socket is closed only when every strategy is
\* signalled and every shutdown task has completed; and when exit() has
\* ended, with strategies installed or without, the socket is closed.
C17_ShutdownClosesConnection ==
    /\ (\E p \in DOMAIN exit_tasks : exit_tasks[p] # "created") => closing = players
    /\ ~socket_open =>
          /\ closing = players
          /\ DOMAIN exit_tasks = players
          /\ \A p \in players : exit_tasks[p] \in {"done", "raised"}
    /\ exit_pc \in {"returned", "ValueError"} => ~socket_open

\* exit() was called with no strategy installed: it ended in ValueError
\* and the socket is still open.
C17_Witness ==
    /\ players = {}
    /\ exit_pc = "ValueError"
    /\ socket_open

(* ======================= one poll per round (C18) ===================== *)
\* C18: between two well-formed fixtures responses the strategies are
\* polled at most once, whatever results, history and retry callbacks run
\* in between.
C18_PolledOncePerRound == polls <= 1

\* A results response found the prefetch or catch-up flag set and polled
\* the strategies again, after the history response that followed the
\* same fixtures had polled them.
C18_Witness ==
    /\ polls = 2
    /\ losses = 0
    /\ last.op = "results_callback" /\ last.ok
    /\ last.from \in {TICKETS, RESULTS}
    /\ Idx(last, "on_event") # {}
    /\ Idx(last, "on_result") = {}

(* ===================== results under auto-skip (C19) ================== *)
\* C19: a well-formed results response processed while auto-skip is
\* latched sets the phase to EVENTS and sends one fixtures request in the
\* same step and nothing else; the table is not fed, on_result, ticket
\* settlement and league archival are not called, dispatch evaluation does
\* not run, and the catch-up and prefetch flags are as they were.
C19_ResultsUnderAutoSkip ==
    [][ (ResultsProcessed(last') /\ auto_skip) =>
          /\ phase' = EVENTS
          /\ \E i \in Idx(last', "send_events") :
                /\ Idx(last', "send_events") = {i}
                /\ last'.log[i].c = 1
          /\ Idx(last', "send_results") \cup Idx(last', "send_history") = {}
          /\ waits' = waits
          /\ Idx(last', "feed_result") \cup Idx(last', "on_result")
                \cup Idx(last', "validate_competition_tickets")
                \cup Idx(last', "on_league_completed")
                \cup Idx(last', "dispatch_events")
                \cup Idx(last', "on_event") = {}
          /\ UNCHANGED <<table, caching_multiple, fetching_future, caching,
                          caching_future, cached, auto_skip, league, week,
                          e_block_id, blocks, league_games, required_weeks>> ]_vars

\* Under auto-skip, with the prefetch flag set, the results response of a
\* round the table has no result for was processed: fixtures requested,
\* table and flag untouched.
C19_Witness ==
    /\ ResultsProcessed(last)
    /\ auto_skip
    /\ fetching_future \/ caching_multiple
    /\ phase = EVENTS
    /\ Idx(last, "send_events") # {}
    /\ Idx(last, "feed_result") = {}
    /\ WeekOfBlock(last.log[1].b) \notin table.results

(* ==================== after the fixtures (C20) ======================== *)
\* The step l is the callback of a well-formed fixtures response that was
\* processed as fixtures (not taken for a successful resume).
FixturesProcessed(l) ==
    /\ l.op = "events_callback" /\ l.ok /\ l.raised = ""
    /\ ~restoring \/ Idx(l, "reprocess") # {}

\* The rounds the table reports missing once it is notified of the
\* fixtures, and the anchor of the backfill: the smallest block the table
\* has a result of, or the block of the fixtures when it has none.
MissingAfter == table_get_missing_weeks(table')
AnchorAfter == IF table'.blocks = {} THEN e_block_id' ELSE SetMin(table'.blocks)

\* The results requests of the step l are one for each missing round, for
\* the block mapped to the round.
OnePerMissingRound(l) ==
    /\ Cardinality(Idx(l, "send_results")) = Len(MissingAfter)
    /\ \A j \in 1..Len(MissingAfter) :
          \E b \in DOMAIN blocks' :
              /\ blocks'[b] = MissingAfter[j]
              /\ \A b2 \in DOMAIN blocks' : blocks'[b2] = MissingAfter[j] => b <= b2
              /\ Cardinality({i \in Idx(l, "send_results") :
                                 l.log[i].b = b /\ l.log[i].c = 0}) = 1

C21_FixtureRecordImmutable ==
    [][ league' = league =>
          \A w \in DOMAIN league_games :
              /\ w \in DOMAIN league_games'
              /\ league_games'[w] = league_games[w] ]_vars

\* A history response brought a round again whose fixture record was
\* stored, and the record was replaced by one with other content.
C21_Witness ==
    /\ last.op = "history_callback" /\ last.ok
    /\ \E w \in DOMAIN league_games : league_games[w].rev = 2

(* ================= block and record of the round (C22) ================ *)
\* The block of the current fixtures is mapped to their round and the
\* round has a fixture record.
CurrentRoundMapped ==
    /\ e_block_id \in DOMAIN blocks
    /\ blocks[e_block_id] = week
    /\ week \in DOMAIN league_games

\* The step l interpreted a results response of block b (lines 454-493):
\* the rounds it looked up, None when the map has no round for the block.
RoundsLookedUp(l, b) ==
    {l.log[i].c : i \in {j \in Idx(l, "feed_result") : l.log[j].a = b}}

\* C22: once well-formed fixtures are processed with auto-skip not latched,
\* their block is mapped to their round and the round has a fixture record
\* whenever dispatch is evaluated or a strategy is polled, and the round
\* looked up for a results response of their block is never absent.
C22_RoundMappedInTime ==
    /\ (/\ last.ok /\ last.raised = "" /\ ~auto_skip
        /\ Idx(last, "dispatch_events") \cup Idx(last, "on_event") # {})
           => CurrentRoundMapped
    /\ (ResultsProcessed(last) /\ ~auto_skip /\ e_block_id # None)
           => None \notin RoundsLookedUp(last, e_block_id)

\* With no connection lost, a results response of the block of the current
\* fixtures was interpreted while the map had no round for the block.
C22_Witness ==
    /\ ResultsProcessed(last) /\ ~auto_skip /\ losses = 0
    /\ e_block_id # None /\ blocks = <<>>
    /\ None \in RoundsLookedUp(last, e_block_id)

(* ================= entries of another league (C23) ==================== *)
\* The response resp without the entries of a league that is not the
\* current one.
OwnLeagueOnly(resp) ==
    [resp EXCEPT !.data.entries = {b \in @ : LeagueOfBlock(b) = league},
                 !.data.resulted = {b \in @ : LeagueOfBlock(b) = league}]

\* What a handler leaves: the state r, the note of the skipped entries
\* taken out of its record.
EffectOf(r) ==
    [r EXCEPT !.log = SelectSeq(@, LAMBDA e : e.ev # "league_skipped")]

\* C23: a history entry of another league than the current one is dropped
\* without effect: whatever the engine's state and the request answered,
\* the batch with such entries leaves the block map, the fixture records,
\* the table and the requests that follow exactly as the batch without
\* them does.
C23_ForeignEntriesDropped ==
    \A xs \in DOMAIN history_xs, resp \in HistoryResponses, u \in Used :
      LET e == [NoEnv EXCEPT !.used = u] IN
        (resp.shape /\ resp # OwnLeagueOnly(resp)) =>
            EffectOf(history_callback(Cur, xs, resp, e))
                = EffectOf(history_callback(Cur, xs, OwnLeagueOnly(resp), e))

\* A history batch with an entry of another league was processed as the
\* backfill went on: the entry was skipped, the block map has the blocks
\* of the current league only.
C23_Witness ==
    /\ last.op = "history_callback" /\ last.ok
    /\ Idx(last, "league_skipped") # {}
    /\ blocks # <<>>
    /\ \A b \in DOMAIN blocks : LeagueOfBlock(b) = league

(* ================= the anchor of a backfill (C24) ===================== *)
\* process_missing as a function of its inputs: the engine with a league
\* under way, any block map (when cached, one that has a block for every
\* round, lines 376-378), any table and any block of current fixtures.
BlockMaps == UNION {[S -> Weeks] : S \in SUBSET Blocks}
MissingLists == {SetToSeqAsc(S) : S \in (SUBSET Weeks) \ {{}}}
InitMissing ==
    /\ online = TRUE
    /\ lost = FALSE
    /\ restoring = FALSE
    /\ phase = EVENTS
    /\ e_block_id \in Blocks
    /\ league = LeagueOfBlock(e_block_id)
    /\ week = max_week
    /\ \E B \in SUBSET Blocks :
          table = [league |-> league, week |-> week, results |-> {}, blocks |-> B]
    /\ caching = FALSE
    /\ caching_future = FALSE
    /\ cached \in BOOLEAN
    /\ caching_multiple = FALSE
    /\ fetching_future = FALSE
    /\ auto_skip = FALSE
    /\ required_weeks = {}
    /\ history_count = 0
    /\ event_xs = EmptyDict
    /\ result_xs = EmptyDict
    /\ history_xs = EmptyDict
    /\ active_tickets = <<>>
    /\ blocks \in BlockMaps
    /\ cached => Weeks \subseteq Range(blocks)
    /\ league_games = EmptyDict
    /\ waits = EmptyBag
    /\ abandoned = None
    /\ iters = 0
    /\ faults = 0
    /\ efaults = 0
    /\ live = e_block_id
    /\ restored = 0
    /\ dead = {}
    /\ losses = 0
    /\ polled = None
    /\ polls = 0
    /\ last = [op |-> "init", xs |-> None, ok |-> TRUE, raised |-> "",
               log |-> <<>>, from |-> EVENTS]
    /\ players = {}
    /\ closing = {}
    /\ exit_tasks = EmptyDict
    /\ exit_pc = "idle"
    /\ socket_open = TRUE

\* One call of process_missing; the record of the call keeps the list it
\* was given and what it returned.
ProcessMissing ==
    \E missing \in MissingLists :
        /\ last.op = "init"
        /\ last' = [op |-> "process_missing",
                    xs |-> process_missing(Cur, missing), ok |-> TRUE,
                    raised |-> "",
                    log |-> <<Ev("process_missing", missing, None, None)>>,
                    from |-> phase]
        /\ UNCHANGED <<online, lost, restoring, phase, e_block_id, league, week,
                       table, caching, caching_future, cached, caching_multiple,
                       fetching_future, auto_skip, required_weeks, history_count,
                       event_xs, result_xs, history_xs, active_tickets, blocks,
                       league_games, waits, abandoned, iters, faults, efaults,
                       live, restored, dead, losses, polled, polls>>
        /\ UNCHANGED ShutdownVars

NextMissing == ProcessMissing

SpecMissing == InitMissing /\ [][NextMissing]_vars

\* C24: process_missing returns, when the league is cached, a block that
\* the map has for the largest missing round; otherwise the smallest block
\* the table knows, or the block of the current fixtures when it knows
\* none.  What it returns is a block id in every case, never absent.
C24_AnchorIsBlock ==
    last.op = "process_missing" =>
        LET missing == last.log[1].a
            anchor == last.xs
        IN  /\ anchor \in Blocks
            /\ IF cached
               THEN /\ anchor \in DOMAIN blocks
                    /\ blocks[anchor] = SetMax(SeqToSet(missing))
               ELSE anchor = IF table.blocks = {} THEN e_block_id
                             ELSE SetMin(table.blocks)

\* Called with the league cached, the blocks 3 and 4 mapped to the rounds
\* 1 and 2 and round 1 missing, process_missing returned nothing.
C24_Witness ==
    /\ last.op = "process_missing" /\ cached
    /\ blocks = (3 :> 1) @@ (4 :> 2)
    /\ last.log[1].a = <<1>>
    /\ last.xs = None

(* ================ one fixtures request at a time (C25) ================ *)
\* The fixtures requests outstanding: those in the fixtures ledger and
\* those waiting in the delay of a retry.
FixturesOutstanding ==
    Cardinality(DOMAIN event_xs)
        + BagCardinality([w \in {v \in BagToSet(waits) : v.k = "events_retry"}
                            |-> waits[w]])

\* C25: as long as the connection holds, at most one fixtures request is
\* outstanding at any time, whatever the order of the callbacks.
C25_OneFixturesRequest == losses = 0 => FixturesOutstanding <= 1

\* Auto-skip latched with the connection up, and two fixtures requests in
\* the ledger at once.
C25_Witness ==
    /\ losses = 0 /\ auto_skip
    /\ Cardinality(DOMAIN event_xs) >= 2

(* ============== malformed fixtures while restoring (C26) ============== *)
\* C26: a malformed fixtures response received while restoring leaves the
\* engine restoring and the tickets as they were: no ticket reset is asked
\* of the user, the list of active tickets is kept, and the response to
\* the re-issued request is still compared with the last block.
C26_MalformedKeepsRestoring ==
    [][ (MalformedFixtures(last') /\ restoring) =>
          /\ restoring'
          /\ active_tickets' = active_tickets
          /\ Idx(last', "reset_competition_tickets") = {} ]_vars

\* A fixtures response that lacks its league arrived while restoring: the
\* user was asked to reset the tickets, the retry is waiting and the
\* engine is no longer restoring.
C26_Witness ==
    /\ last.op = "events_callback" /\ ~last.ok
    /\ Idx(last, "reset_competition_tickets") # {}
    /\ ~restoring /\ active_tickets = <<>>
    /\ \E w \in BagToSet(waits) : w.k = "events_retry"

(* ===================== auto-skip stays latched (C27) ================== *)
\* C27: once latched, auto-skip stays latched over every step but one: a
\* well-formed fixtures response of another league than the current one
\* whose match day is 1.  A league change at another match day, a results
\* response and a history response leave it latched.
C27_AutoSkipClearedOnlyByNewLeague ==
    [][ (auto_skip /\ ~auto_skip') =>
          /\ last'.op = "events_callback" /\ last'.ok /\ last'.raised = ""
          /\ Idx(last', "league_changed") # {}
          /\ league' # league
          /\ week' = 1 ]_vars

\* With auto-skip latched the fixtures of another league arrived at match
\* day 2: the league changed and auto-skip is still latched.
C27_Witness ==
    /\ last.op = "events_callback" /\ last.ok
    /\ Idx(last, "league_changed") # {}
    /\ \E i \in Idx(last, "league_changed") : last.log[i].a # None
    /\ week = 2
    /\ auto_skip

(* ====================== the cached flag (C28) ========================= *)
\* C28: whenever cached is set every round of the league has a block in
\* the block map (get_missing_blocks is empty), so that the look-up of the
\* block of a round finds one for every round; and cached is never set
\* together with the backfill mode caching.
C28_CachedMeansAllBlocks ==
    /\ cached => /\ get_missing_blocks(Cur) = {}
                 /\ \A w \in Weeks : get_block_by_week(Cur, w) # None
    /\ ~(cached /\ caching)

\* The league is cached and the engine is catching up on a missing round:
\* the results request of the catch-up went to the block the map has for
\* the round.
C28_Witness ==
    /\ cached /\ caching_multiple /\ ~caching
    /\ \E xs \in DOMAIN result_xs :
          /\ result_xs[xs].eBlockId \in DOMAIN blocks
          /\ blocks[result_xs[xs].eBlockId] < week

=============================================================================
